---- MODULE Spec2Model ----
(***************************************************************************)
(* Model of ContainersResolver.Resolve (pkg/containerResolver).            *)
(*                                                                         *)
(* Resolve is a straight-line pipeline over external collaborators:        *)
(*   validate -> ExtractFiles -> ExtractAndMergeImagesFromFiles ->         *)
(*   AnalyzeImages[WithPlatform] -> SaveObjectToFile -> cleanup            *)
(* The collaborators (imagesExtractor, syftPackagesExtractor, os) are not  *)
(* part of the repository: every call to one of them is a nondeterministic *)
(* choice of its results, and is recorded in the per-call list `calls`     *)
(* (what the test's mock.Mock records).  The directories on disk are the   *)
(* set `fs`, the folders holding a written artifact the set `files`.       *)
(*                                                                         *)
(* The sources hold three revisions of the pipeline ("variants"):          *)
(*   "platform"  containerScanner.go lines 1-141   (AnalyzeImagesWith-     *)
(*               Platform, cleanup that only warns on the .checkmarx dir)  *)
(*   "checkmarx" containerScanner.go lines 143-251 (AnalyzeImages, cleanup *)
(*               that deletes both directories together)                   *)
(*   "plain"     unnamed/part_000                  (no .checkmarx folder)  *)
(* A run is one variant, fixed in Init.                                    *)
(*                                                                         *)
(* Each Resolve call is a process whose position `pc` advances one         *)
(* collaborator call at a time, so that two calls can interleave.  With    *)
(* serialized = TRUE the caller starts a call only when no other call is   *)
(* in progress.                                                            *)
(***************************************************************************)
EXTENDS Naturals, Sequences, FiniteSets, TLC

VARIABLES
    variant,               \* which revision of the pipeline runs
    serialized,            \* TRUE: the caller serializes the Resolve calls
    fs,                    \* the directories that exist (paths)
    files,                 \* the folders that hold a resolution artifact
    pc,                    \* position of each Resolve call
    resolutionFolderPath,  \* argument of Resolve
    images,                \* argument of Resolve
    checkmarxPath,         \* local of Resolve
    filesWithImages,       \* local of Resolve
    settingsFiles,         \* local of Resolve
    outputPath,            \* local of Resolve
    imagesToAnalyze,       \* local of Resolve
    resolutionResult,      \* local of Resolve
    ret,                   \* the error Resolve returned ("nil": none)
    calls                  \* the collaborator calls of the current Resolve call

vars == <<variant, serialized, fs, files, pc, resolutionFolderPath, images,
          checkmarxPath, filesWithImages, settingsFiles, outputPath,
          imagesToAnalyze, resolutionResult, ret, calls>>

locals == <<checkmarxPath, filesWithImages, settingsFiles, outputPath,
            imagesToAnalyze, resolutionResult>>

----------------------------------------------------------------------------
(* Bounds and value universes                                              *)

\* longest explicit image list handed to Resolve
MaxImages == 2

Procs == {"A", "B"}
Variants == {"platform", "checkmarx", "plain"}

\* A path is the sequence of its components; "" is the empty sequence.
EmptyPath == << >>
Folders == {EmptyPath, <<"res">>}
OutputPaths == Folders \cup {<<"tmp">>}
ScanPath == <<"scan">>

Nil == "nil"
Errors == {"err1", "err2"}

ImageName(i) == "image" \o ToString(i)
\* the explicit image list: none, or MaxImages names
ImageLists == {[i \in 1..n |-> ImageName(i)] : n \in {0, MaxImages}}

NoFileImages == "noFileImages"
FileImagesValues == {"fileImages1", "fileImages2"}
NoSettings == "noSettings"
SettingsValues == {"settings1", "settings2"}
NoResolution == "noResolution"
ResolutionValues == {"resolution1", "resolution2"}

----------------------------------------------------------------------------
(* Helpers of the collaborating libraries                                  *)

\* types.ToImageModels: one model per image name, located at "UserInput"
ToImageModels(names) ==
    [i \in 1..Len(names) |->
        [Name |-> names[i],
         ImageLocations |-> <<[Origin |-> "UserInput", Path |-> "NONE"]>>]]

\* what the merge may return: any list of models, here one of two
MergedValues == {<< >>, ToImageModels(<<"image1">>)}

\* filepath.Join(base, elems...): empty elements are dropped
Join(base, elems) == base \o elems

IsPrefix(d, p) == Len(d) <= Len(p) /\ SubSeq(p, 1, Len(d)) = d

\* os.MkdirAll(p) that succeeded: p and all its parents exist
MkdirAll(dirs, p) == dirs \cup {SubSeq(p, 1, k) : k \in 1..Len(p)}

\* DeleteDirectory(p) that succeeded: p and everything under it is gone
RemoveAll(dirs, p) == {d \in dirs : ~IsPrefix(p, d)}
RemoveFiles(fls, p) == {f \in fls : ~IsPrefix(p, f)}

\* whether a directory is there to be written into ("" is the working
\* directory); SaveObjectToFile can only succeed in a directory that exists
DirExists(dirs, p) == p = EmptyPath \/ p \in dirs

\* one recorded collaborator call
Recorded(op, args, res, err) == [op |-> op, args |-> args, res |-> res, err |-> err]

\* SaveObjectToFile(folder, obj) that succeeded: the folder holds the artifact
\* (one fixed file name per folder, so a second write replaces the first)
WriteFile(fls, folder) == fls \cup {folder}

\* Payloads are drawn from S; when the calls are not serialized only the
\* directory and error outcomes matter, and one payload stands for all.
Payloads(S) == IF serialized THEN S ELSE {CHOOSE x \in S : TRUE}

\* The folders a call may be given: calls that are not serialized are the
\* calls against one and the same resolution folder.
SharedFolder == <<"res">>
CallFolders == IF serialized THEN Folders ELSE {SharedFolder}

----------------------------------------------------------------------------
(* The code of the repository                                              *)

\* Resolve: `if err != nil { return err }` after every step, else the next step
NextStep(step) ==
    CASE step = "validate" -> "extract"
      [] step = "extract"  -> "merge"
      [] step = "merge"    -> "analyze"
      [] step = "analyze"  -> "save"
      [] step = "save"     -> "cleanup"
      [] step = "cleanup"  -> "done"

\* (mutation for C3: the error of a step is not checked)
AfterStepIgnoringError(step, err) == NextStep(step)

\* (mutation for C8: a failed SaveObjectToFile still falls through to cleanup)
AfterStepCleaningUpOnSaveError(step, err) ==
    IF err # Nil /\ step # "save" THEN "done" ELSE NextStep(step)

AfterStep(step, err) == IF err # Nil THEN "done" ELSE NextStep(step)

\* (mutation for C10: the path is returned without MkdirAll being called)
validateResultWithoutMkdir(v, path, isValid, validErr, mkdirErr) ==
    IF validErr # Nil \/ ~isValid
    THEN [checkmarxPath |-> EmptyPath, err |-> validErr, mkdir |-> FALSE]
    ELSE [checkmarxPath |-> IF v = "plain" THEN EmptyPath
                            ELSE Join(path, <<".checkmarx", "containers">>),
          err |-> Nil, mkdir |-> FALSE]

\* validate(resolutionFolderPath), given what IsValidFolderPath and MkdirAll
\* answer: the path it returns, its error, and whether MkdirAll was called.
\* (hideDirectoryOnWindows only logs a warning when it fails; the "plain"
\* revision only checks the path and returns the error.)
validateResult(v, path, isValid, validErr, mkdirErr) ==
    IF validErr # Nil \/ ~isValid
    THEN [checkmarxPath |-> EmptyPath, err |-> validErr, mkdir |-> FALSE]
    ELSE IF v = "plain"
    THEN [checkmarxPath |-> EmptyPath, err |-> Nil, mkdir |-> FALSE]
    ELSE IF mkdirErr # Nil
    THEN [checkmarxPath |-> EmptyPath, err |-> mkdirErr, mkdir |-> TRUE]
    ELSE [checkmarxPath |-> Join(path, <<".checkmarx", "containers">>),
          err |-> Nil, mkdir |-> TRUE]

\* (mutation for C7: the explicit images are not handed to the merge)
MergeArgsWithoutImages(fileImages, imgs, settings) ==
    <<fileImages, << >>, settings>>

\* the arguments Resolve hands to ExtractAndMergeImagesFromFiles
MergeArgs(fileImages, imgs, settings) ==
    <<fileImages, ToImageModels(imgs), settings>>

\* the analyzer call Resolve makes
AnalyzeOp(v) == IF v = "platform" THEN "AnalyzeImagesWithPlatform" ELSE "AnalyzeImages"
AnalyzeArgs(v, imgs) == IF v = "platform" THEN <<imgs, "linux/amd64">> ELSE <<imgs>>

\* the arguments Resolve hands to SaveObjectToFile
SaveArgs(v, folder, cxPath, result) ==
    IF v = "plain" THEN <<folder, result>> ELSE <<cxPath, result>>

\* (mutation for C5: the output path is not compared with the original path)
DeletesOutputUncompared(originalPath, outPath) == outPath # EmptyPath

\* cleanup: whether the extractor's output directory is deleted
DeletesOutput(originalPath, outPath) ==
    outPath # EmptyPath /\ outPath # originalPath

\* (mutation for C1: cleanup swallows every deletion error)
cleanupResultSwallowingErrors(v, originalPath, outPath, cxPath, outErr, cxErr) ==
    [dels |-> (IF DeletesOutput(originalPath, outPath)
               THEN << <<outPath, outErr>> >> ELSE << >>)
              \o (IF cxPath # EmptyPath THEN << <<cxPath, cxErr>> >> ELSE << >>),
     err  |-> Nil]

\* (mutation for C9: cleanup also returns the error of the .checkmarx deletion)
cleanupResultReturningCxErr(v, originalPath, outPath, cxPath, outErr, cxErr) ==
    [dels |-> (IF DeletesOutput(originalPath, outPath)
               THEN << <<outPath, outErr>> >> ELSE << >>)
              \o (IF cxPath # EmptyPath THEN << <<cxPath, cxErr>> >> ELSE << >>),
     err  |-> IF DeletesOutput(originalPath, outPath) /\ outErr # Nil
              THEN outErr
              ELSE IF cxPath # EmptyPath THEN cxErr ELSE Nil]

\* (mutation for C4: cleanup leaves the .checkmarx/containers directory alone)
cleanupResultKeepingCx(v, originalPath, outPath, cxPath, outErr, cxErr) ==
    [dels |-> IF DeletesOutput(originalPath, outPath)
              THEN << <<outPath, outErr>> >> ELSE << >>,
     err  |-> IF DeletesOutput(originalPath, outPath) THEN outErr ELSE Nil]

\* cleanup(originalPath, outputPath, checkmarxPath), given what the two
\* DeleteDirectory calls answer: the deletions it attempts, in order, each
\* with its outcome, and the error it returns
cleanupResult(v, originalPath, outPath, cxPath, outErr, cxErr) ==
    CASE v = "platform" ->
           [dels |-> (IF DeletesOutput(originalPath, outPath)
                      THEN << <<outPath, outErr>> >> ELSE << >>)
                     \o (IF cxPath # EmptyPath
                         THEN << <<cxPath, cxErr>> >> ELSE << >>),
            err  |-> IF DeletesOutput(originalPath, outPath) THEN outErr ELSE Nil]
      [] v = "checkmarx" ->
           IF DeletesOutput(originalPath, outPath) /\ cxPath # EmptyPath
           THEN [dels |-> << <<outPath, outErr>>, <<cxPath, cxErr>> >>,
                 err  |-> IF outErr # Nil THEN outErr ELSE cxErr]
           ELSE [dels |-> << >>, err |-> Nil]
      [] v = "plain" ->
           IF DeletesOutput(originalPath, outPath)
           THEN [dels |-> << <<outPath, outErr>> >>, err |-> outErr]
           ELSE [dels |-> << >>, err |-> Nil]

\* the directories and artifacts left by a sequence of DeleteDirectory calls
RECURSIVE DirsAfter(_, _)
DirsAfter(dirs, dels) ==
    IF dels = << >> THEN dirs
    ELSE DirsAfter(IF Head(dels)[2] = Nil THEN RemoveAll(dirs, Head(dels)[1]) ELSE dirs,
                   Tail(dels))

RECURSIVE FilesAfter(_, _)
FilesAfter(fls, dels) ==
    IF dels = << >> THEN fls
    ELSE FilesAfter(IF Head(dels)[2] = Nil THEN RemoveFiles(fls, Head(dels)[1]) ELSE fls,
                    Tail(dels))

DeleteCalls(dels) ==
    [i \in 1..Len(dels) |-> Recorded("DeleteDirectory", <<dels[i][1]>>, << >>, dels[i][2])]

----------------------------------------------------------------------------
(* State machine                                                           *)

Init ==
    /\ variant \in Variants
    /\ serialized \in BOOLEAN
    /\ fs = {f \in Folders : f # EmptyPath}
    /\ files = {}
    /\ pc = [p \in Procs |-> "idle"]
    /\ resolutionFolderPath = [p \in Procs |-> EmptyPath]
    /\ images = [p \in Procs |-> << >>]
    /\ checkmarxPath = [p \in Procs |-> EmptyPath]
    /\ filesWithImages = [p \in Procs |-> NoFileImages]
    /\ settingsFiles = [p \in Procs |-> NoSettings]
    /\ outputPath = [p \in Procs |-> EmptyPath]
    /\ imagesToAnalyze = [p \in Procs |-> << >>]
    /\ resolutionResult = [p \in Procs |-> NoResolution]
    /\ ret = [p \in Procs |-> Nil]
    /\ calls = [p \in Procs |-> << >>]

\* the caller enters Resolve(scanPath, resolutionFolderPath, images, isDebug);
\* isDebug only sets the log level
Resolve(p) ==
    /\ pc[p] = "idle"
    /\ serialized => \A q \in Procs : pc[q] = "idle"
    /\ \E folder \in CallFolders, imgs \in Payloads(ImageLists) :
          /\ resolutionFolderPath' = [resolutionFolderPath EXCEPT ![p] = folder]
          /\ images' = [images EXCEPT ![p] = imgs]
    /\ pc' = [pc EXCEPT ![p] = "validate"]
    /\ UNCHANGED <<variant, serialized, fs, files, locals, ret, calls>>

\* step 0: checkmarxPath, err := validate(resolutionFolderPath)
validate(p) ==
    /\ pc[p] = "validate"
    /\ \E isValid \in BOOLEAN, validErr \in {Nil} \cup Payloads(Errors),
          mkdirErr \in {Nil} \cup Payloads(Errors) :
          LET r  == validateResult(variant, resolutionFolderPath[p], isValid,
                                   validErr, mkdirErr)
              cx == Join(resolutionFolderPath[p], <<".checkmarx", "containers">>)
          IN  /\ ~r.mkdir => mkdirErr = Nil
              /\ checkmarxPath' = [checkmarxPath EXCEPT ![p] = r.checkmarxPath]
              /\ fs' = IF r.mkdir /\ r.err = Nil THEN MkdirAll(fs, cx) ELSE fs
              /\ calls' = [calls EXCEPT ![p] =
                    @ \o <<Recorded("IsValidFolderPath", <<resolutionFolderPath[p]>>,
                                    <<isValid>>, validErr)>>
                      \o (IF r.mkdir
                          THEN <<Recorded("MkdirAll", <<cx>>, << >>, mkdirErr)>>
                          ELSE << >>)]
              /\ pc' = [pc EXCEPT ![p] = AfterStep("validate", r.err)]
              /\ ret' = [ret EXCEPT ![p] = r.err]
    /\ UNCHANGED <<variant, serialized, files, resolutionFolderPath, images,
                   filesWithImages, settingsFiles, outputPath, imagesToAnalyze,
                   resolutionResult>>

\* step 1: filesWithImages, settingsFiles, outputPath, err := cr.ExtractFiles(scanPath)
ExtractFiles(p) ==
    /\ pc[p] = "extract"
    /\ \E err \in {Nil} \cup Payloads(Errors) :
       \E fi \in (IF err = Nil THEN Payloads(FileImagesValues) ELSE {NoFileImages}),
          st \in (IF err = Nil THEN Payloads(SettingsValues) ELSE {NoSettings}),
          out \in (IF err = Nil THEN OutputPaths ELSE {EmptyPath}) :
          /\ filesWithImages' = [filesWithImages EXCEPT ![p] = fi]
          /\ settingsFiles' = [settingsFiles EXCEPT ![p] = st]
          /\ outputPath' = [outputPath EXCEPT ![p] = out]
          /\ fs' = IF out # EmptyPath THEN MkdirAll(fs, out) ELSE fs
          /\ calls' = [calls EXCEPT ![p] =
                Append(@, Recorded("ExtractFiles", <<ScanPath>>, <<fi, st, out>>, err))]
          /\ pc' = [pc EXCEPT ![p] = AfterStep("extract", err)]
          /\ ret' = [ret EXCEPT ![p] = err]
    /\ UNCHANGED <<variant, serialized, files, resolutionFolderPath, images,
                   checkmarxPath, imagesToAnalyze, resolutionResult>>

\* step 2: imagesToAnalyze, err := cr.ExtractAndMergeImagesFromFiles(...)
ExtractAndMergeImagesFromFiles(p) ==
    /\ pc[p] = "merge"
    /\ \E err \in {Nil} \cup Payloads(Errors) :
       \E merged \in (IF err = Nil THEN Payloads(MergedValues) ELSE {<< >>}) :
          /\ imagesToAnalyze' = [imagesToAnalyze EXCEPT ![p] = merged]
          /\ calls' = [calls EXCEPT ![p] =
                Append(@, Recorded("ExtractAndMergeImagesFromFiles",
                                   MergeArgs(filesWithImages[p], images[p],
                                             settingsFiles[p]),
                                   <<merged>>, err))]
          /\ pc' = [pc EXCEPT ![p] = AfterStep("merge", err)]
          /\ ret' = [ret EXCEPT ![p] = err]
    /\ UNCHANGED <<variant, serialized, fs, files, resolutionFolderPath, images,
                   checkmarxPath, filesWithImages, settingsFiles, outputPath,
                   resolutionResult>>

\* step 3: resolutionResult, err := cr.AnalyzeImagesWithPlatform(...) / AnalyzeImages(...)
AnalyzeImages(p) ==
    /\ pc[p] = "analyze"
    /\ \E err \in {Nil} \cup Payloads(Errors) :
       \E result \in (IF err = Nil THEN Payloads(ResolutionValues) ELSE {NoResolution}) :
          /\ resolutionResult' = [resolutionResult EXCEPT ![p] = result]
          /\ calls' = [calls EXCEPT ![p] =
                Append(@, Recorded(AnalyzeOp(variant),
                                   AnalyzeArgs(variant, imagesToAnalyze[p]),
                                   <<result>>, err))]
          /\ pc' = [pc EXCEPT ![p] = AfterStep("analyze", err)]
          /\ ret' = [ret EXCEPT ![p] = err]
    /\ UNCHANGED <<variant, serialized, fs, files, resolutionFolderPath, images,
                   checkmarxPath, filesWithImages, settingsFiles, outputPath,
                   imagesToAnalyze>>

\* step 4: err = cr.SaveObjectToFile(checkmarxPath, resolutionResult)
SaveObjectToFile(p) ==
    /\ pc[p] = "save"
    /\ LET args == SaveArgs(variant, resolutionFolderPath[p], checkmarxPath[p],
                            resolutionResult[p])
       IN \E err \in {Nil} \cup Payloads(Errors) :
             /\ err = Nil => DirExists(fs, args[1])
             /\ files' = IF err = Nil THEN WriteFile(files, args[1]) ELSE files
             /\ calls' = [calls EXCEPT ![p] =
                   Append(@, Recorded("SaveObjectToFile", args, << >>, err))]
             /\ pc' = [pc EXCEPT ![p] = AfterStep("save", err)]
             /\ ret' = [ret EXCEPT ![p] = err]
    /\ UNCHANGED <<variant, serialized, fs, resolutionFolderPath, images, locals>>

\* step 5: err = cleanup(resolutionFolderPath, outputPath, checkmarxPath)
cleanup(p) ==
    /\ pc[p] = "cleanup"
    /\ \E outErr \in {Nil} \cup Payloads(Errors), cxErr \in {Nil} \cup Payloads(Errors) :
          LET r == cleanupResult(variant, resolutionFolderPath[p], outputPath[p],
                                 checkmarxPath[p], outErr, cxErr)
          IN  /\ fs' = DirsAfter(fs, r.dels)
              /\ files' = FilesAfter(files, r.dels)
              /\ calls' = [calls EXCEPT ![p] = @ \o DeleteCalls(r.dels)]
              /\ pc' = [pc EXCEPT ![p] = AfterStep("cleanup", r.err)]
              /\ ret' = [ret EXCEPT ![p] = r.err]
    /\ UNCHANGED <<variant, serialized, resolutionFolderPath, images, locals>>

\* Resolve has returned ret[p]; its frame and the record of its calls go away
Return(p) ==
    /\ pc[p] = "done"
    /\ pc' = [pc EXCEPT ![p] = "idle"]
    /\ resolutionFolderPath' = [resolutionFolderPath EXCEPT ![p] = EmptyPath]
    /\ images' = [images EXCEPT ![p] = << >>]
    /\ checkmarxPath' = [checkmarxPath EXCEPT ![p] = EmptyPath]
    /\ filesWithImages' = [filesWithImages EXCEPT ![p] = NoFileImages]
    /\ settingsFiles' = [settingsFiles EXCEPT ![p] = NoSettings]
    /\ outputPath' = [outputPath EXCEPT ![p] = EmptyPath]
    /\ imagesToAnalyze' = [imagesToAnalyze EXCEPT ![p] = << >>]
    /\ resolutionResult' = [resolutionResult EXCEPT ![p] = NoResolution]
    /\ ret' = [ret EXCEPT ![p] = Nil]
    /\ calls' = [calls EXCEPT ![p] = << >>]
    /\ UNCHANGED <<variant, serialized, fs, files>>

Next ==
    \E p \in Procs :
        \/ Resolve(p)
        \/ validate(p)
        \/ ExtractFiles(p)
        \/ ExtractAndMergeImagesFromFiles(p)
        \/ AnalyzeImages(p)
        \/ SaveObjectToFile(p)
        \/ cleanup(p)
        \/ Return(p)

Spec == Init /\ [][Next]_vars

----------------------------------------------------------------------------
(* Vocabulary of the properties: what the record of a call shows           *)

CxSuffix == <<".checkmarx", "containers">>
PipelineOps == <<"ExtractFiles", "ExtractAndMergeImagesFromFiles",
                 AnalyzeOp(variant), "SaveObjectToFile">>
IsPipelineOp(op) == \E r \in 1..4 : PipelineOps[r] = op
Rank(op) == CHOOSE r \in 1..4 : PipelineOps[r] = op

Returned(p) == pc[p] = "done"
Entries(p, op) == {i \in 1..Len(calls[p]) : calls[p][i].op = op}
Invoked(p, op) == Entries(p, op) # {}
Succeeded(p, op) == \E i \in Entries(p, op) : calls[p][i].err = Nil
AllFourSucceeded(p) == \A r \in 1..4 : Succeeded(p, PipelineOps[r])
NoneOfFourInvoked(p) == \A r \in 1..4 : ~Invoked(p, PipelineOps[r])

\* IsValidFolderPath answered (true, nil), and MkdirAll, where called, succeeded
PathCheckedValid(p) ==
    \E i \in Entries(p, "IsValidFolderPath") :
        calls[p][i].err = Nil /\ calls[p][i].res[1]
PathCheckedInvalid(p) ==
    \E i \in Entries(p, "IsValidFolderPath") :
        calls[p][i].err # Nil \/ ~calls[p][i].res[1]
ValidFolder(p) ==
    /\ PathCheckedValid(p)
    /\ \A i \in Entries(p, "MkdirAll") : calls[p][i].err = Nil

\* validate created the results subdirectory
CreatedResultsDir(p) == Succeeded(p, "MkdirAll")
ResultsDir(p) == Join(resolutionFolderPath[p], CxSuffix)

\* the DeleteDirectory calls on a given path
Deletions(p, path) ==
    {i \in Entries(p, "DeleteDirectory") : calls[p][i].args[1] = path}
DeletionFailed(p, path) == \E i \in Deletions(p, path) : calls[p][i].err # Nil
AnyDeletionFailed(p) ==
    \E i \in Entries(p, "DeleteDirectory") : calls[p][i].err # Nil

\* the extractor's output path is one cleanup may delete
OutputIsTemporary(p) ==
    outputPath[p] # EmptyPath /\ outputPath[p] # resolutionFolderPath[p]

----------------------------------------------------------------------------
(* C1 *)

----------------------------------------------------------------------------
(* C2 *)

\* C2 (as claimed): when the path check reports the resolution folder not
\* valid, with or without an error, Resolve returns an error and none of the
\* four collaborator calls is made.
C2_InvalidFolderStopsResolve ==
    \A p \in Procs :
        PathCheckedInvalid(p)
            => /\ NoneOfFourInvoked(p)
               /\ Returned(p) => ret[p] # Nil

----------------------------------------------------------------------------
(* C3 *)

\* C3: a failed pipeline step is the last call Resolve makes, Resolve has
\* returned exactly that step's error, and a step is only ever invoked after
\* the step before it succeeded (so SaveObjectToFile never follows a failed
\* analysis, and merge and analysis never follow a failed discovery).
C3_FailureAbortsAndPropagates ==
    \A p \in Procs : \A i \in 1..Len(calls[p]) :
        IsPipelineOp(calls[p][i].op)
            => /\ calls[p][i].err # Nil
                    => /\ i = Len(calls[p])
                       /\ Returned(p)
                       /\ ret[p] = calls[p][i].err
               /\ Rank(calls[p][i].op) > 1
                    => \E j \in 1..(i - 1) :
                          /\ calls[p][j].op = PipelineOps[Rank(calls[p][i].op) - 1]
                          /\ calls[p][j].err = Nil

\* the analysis failed after discovery and merge succeeded: Resolve returned
\* the analyzer's error, SaveObjectToFile was not invoked, nothing was written
C3_Witness ==
    \E p \in Procs :
        /\ Returned(p)
        /\ Succeeded(p, "ExtractFiles")
        /\ Succeeded(p, "ExtractAndMergeImagesFromFiles")
        /\ Invoked(p, AnalyzeOp(variant)) /\ ~Succeeded(p, AnalyzeOp(variant))
        /\ ret[p] = calls[p][Len(calls[p])].err /\ ret[p] # Nil
        /\ ~Invoked(p, "SaveObjectToFile")
        /\ files = {}

----------------------------------------------------------------------------
(* C4 *)

\* C4 (as claimed): after a Resolve call that returned no error, the results
\* subdirectory created by validate no longer exists, and neither does the
\* extractor's output directory when it differs from the resolution folder.
C4_ResultsDirGoneAfterSuccess ==
    \A p \in Procs :
        (serialized /\ variant = "platform" /\ Returned(p) /\ ret[p] = Nil
            /\ CreatedResultsDir(p))
            => /\ ResultsDir(p) \notin fs
               /\ OutputIsTemporary(p) => outputPath[p] \notin fs

\* C4 (amended): after a Resolve call that returned no error, the deletion
\* of the results subdirectory created by validate has been attempted
\* (lines 143-251: provided the output path is non-empty and differs from
\* the resolution folder) and the subdirectory no longer exists unless that
\* deletion failed; the extractor's output directory, when non-empty and
\* different from the resolution folder, no longer exists.
C4_ResultsDirGoneUnlessDeletionFailed ==
    \A p \in Procs :
        (serialized /\ Returned(p) /\ ret[p] = Nil /\ CreatedResultsDir(p))
            => /\ (variant = "platform" \/ OutputIsTemporary(p))
                    => /\ Deletions(p, ResultsDir(p)) # {}
                       /\ ~DeletionFailed(p, ResultsDir(p))
                            => ResultsDir(p) \notin fs
               /\ OutputIsTemporary(p) => outputPath[p] \notin fs

\* Resolve returned no error, yet the results subdirectory is still there:
\* its deletion failed and was only logged
C4_Witness ==
    \E p \in Procs :
        /\ serialized /\ variant = "platform"
        /\ Returned(p) /\ ret[p] = Nil /\ CreatedResultsDir(p)
        /\ DeletionFailed(p, ResultsDir(p))
        /\ ResultsDir(p) \in fs

----------------------------------------------------------------------------
(* C5 *)

\* C5: every DeleteDirectory call of Resolve is on the results subdirectory
\* or on the extractor's output path, the latter only when that path is
\* non-empty and differs from the resolution folder path; the resolution
\* folder path itself is never passed to DeleteDirectory.
C5_NeverDeletesResolutionFolder ==
    \A p \in Procs : \A i \in Entries(p, "DeleteDirectory") :
        LET path == calls[p][i].args[1]
        IN  /\ path # resolutionFolderPath[p]
            /\ path # EmptyPath
            /\ \/ variant # "plain" /\ path = checkmarxPath[p]
               \/ path = outputPath[p] /\ OutputIsTemporary(p)

\* the extractor worked in the resolution folder itself, cleanup ran, and
\* the folder was not handed to DeleteDirectory and still exists
C5_Witness ==
    \E p \in Procs :
        /\ serialized /\ Returned(p) /\ Succeeded(p, "SaveObjectToFile")
        /\ outputPath[p] = resolutionFolderPath[p]
        /\ outputPath[p] # EmptyPath
        /\ Deletions(p, checkmarxPath[p]) # {}
        /\ Deletions(p, outputPath[p]) = {}
        /\ resolutionFolderPath[p] \in fs

----------------------------------------------------------------------------
(* C6 *)

\* C6 (as claimed): whenever Resolve invokes SaveObjectToFile, the folder
\* argument is <resolutionFolderPath>/.checkmarx/containers, that directory
\* exists at the moment of the call, and the object argument is the value
\* the analyzer returned.
C6_SaveTargetsExistingResultsDir ==
    \A p \in Procs :
        (variant = "platform" /\ pc[p] = "save")
            => LET args == SaveArgs(variant, resolutionFolderPath[p],
                                    checkmarxPath[p], resolutionResult[p])
                   last == calls[p][Len(calls[p])]
               IN  /\ args[1] = ResultsDir(p)
                   /\ serialized => args[1] \in fs
                   /\ last.op = AnalyzeOp(variant) /\ args[2] = last.res[1]

----------------------------------------------------------------------------
(* C7 *)

\* C7: ExtractAndMergeImagesFromFiles receives exactly the file-image map
\* and the settings map ExtractFiles returned, with the image models of the
\* explicit image list; the analyzer receives exactly the list the merge
\* returned, and in the lines 1-141 pipeline the platform "linux/amd64".
C7_DataPassedUnmodified ==
    \A p \in Procs : \A i \in 1..Len(calls[p]) :
        /\ calls[p][i].op = "ExtractAndMergeImagesFromFiles"
            => /\ i > 1 /\ calls[p][i - 1].op = "ExtractFiles"
               /\ calls[p][i].args[1] = calls[p][i - 1].res[1]
               /\ calls[p][i].args[3] = calls[p][i - 1].res[2]
               /\ Len(calls[p][i].args[2]) = Len(images[p])
               /\ \A k \in 1..Len(images[p]) :
                     calls[p][i].args[2][k].Name = images[p][k]
        /\ calls[p][i].op \in {"AnalyzeImages", "AnalyzeImagesWithPlatform"}
            => /\ i > 1 /\ calls[p][i - 1].op = "ExtractAndMergeImagesFromFiles"
               /\ calls[p][i].args[1] = calls[p][i - 1].res[1]
               /\ variant = "platform"
                    => /\ calls[p][i].op = "AnalyzeImagesWithPlatform"
                       /\ calls[p][i].args = <<calls[p][i - 1].res[1], "linux/amd64">>

\* the analyzer was invoked with the merged list, which is not the list of
\* models of the explicit images, after a merge that was given those models
C7_Witness ==
    \E p \in Procs :
        /\ variant = "platform"
        /\ Len(images[p]) = MaxImages
        /\ Invoked(p, "AnalyzeImagesWithPlatform")
        /\ imagesToAnalyze[p] # ToImageModels(images[p])
        /\ \E i \in Entries(p, "AnalyzeImagesWithPlatform") :
              calls[p][i].args[1] = imagesToAnalyze[p]
        /\ \E i \in Entries(p, "ExtractAndMergeImagesFromFiles") :
              calls[p][i].args = <<"fileImages2", ToImageModels(images[p]), "settings2">>

----------------------------------------------------------------------------
(* C8 *)

\* C8 (as claimed): once validate has created the results subdirectory,
\* cleanup is attempted before Resolve returns whether or not
\* SaveObjectToFile succeeded: a call that reached SaveObjectToFile and has
\* returned has tried to delete that subdirectory.
C8_CleanupAlwaysAttempted ==
    \A p \in Procs :
        (variant = "platform" /\ Returned(p) /\ CreatedResultsDir(p)
            /\ Invoked(p, "SaveObjectToFile"))
            => Deletions(p, ResultsDir(p)) # {}

\* C8 (amended): once validate has created the results subdirectory, Resolve
\* attempts to delete it before returning exactly when all four collaborator
\* calls succeeded (lines 143-251: and the output path is non-empty and
\* differs from the resolution folder); when SaveObjectToFile or an earlier
\* step fails, Resolve returns without any DeleteDirectory call.
C8_CleanupOnlyAfterAllFourSucceed ==
    \A p \in Procs :
        (Returned(p) /\ CreatedResultsDir(p))
            => /\ Deletions(p, ResultsDir(p)) # {}
                    <=> /\ AllFourSucceeded(p)
                        /\ variant = "checkmarx" => OutputIsTemporary(p)
               /\ ~AllFourSucceeded(p) => ~Invoked(p, "DeleteDirectory")

\* SaveObjectToFile failed: Resolve returned its error without cleanup, and
\* the results subdirectory and the extractor's output directory are left
C8_Witness ==
    \E p \in Procs :
        /\ serialized /\ variant = "platform"
        /\ Returned(p) /\ CreatedResultsDir(p)
        /\ Invoked(p, "SaveObjectToFile") /\ ~Succeeded(p, "SaveObjectToFile")
        /\ ret[p] # Nil
        /\ ~Invoked(p, "DeleteDirectory")
        /\ ResultsDir(p) \in fs
        /\ OutputIsTemporary(p) /\ outputPath[p] \in fs

----------------------------------------------------------------------------
(* C9 *)

----------------------------------------------------------------------------
(* C10 *)

\* a call that validate gave a results subdirectory, that has not yet passed
\* SaveObjectToFile, and whose subdirectory is gone
ResultsDirLost(p) ==
    /\ pc[p] \in {"extract", "merge", "analyze", "save"}
    /\ checkmarxPath[p] # EmptyPath
    /\ checkmarxPath[p] \notin fs

\* C10: when the Resolve calls are serialized, no call between its validate
\* and its SaveObjectToFile ever finds its results subdirectory deleted
\* (when they are not, C10_Witness is reachable).
C10_SerializedCallsKeepResultsDir ==
    serialized => \A p \in Procs : ~ResultsDirLost(p)

\* two calls on the same resolution folder that are not serialized: the
\* cleanup of one has just deleted the results subdirectory the validate of
\* the other created, before that other reached SaveObjectToFile
C10_Witness ==
    /\ ~serialized
    /\ \E a \in Procs, b \in Procs :
          /\ a # b
          /\ resolutionFolderPath[a] = resolutionFolderPath[b]
          /\ ResultsDirLost(b)
          /\ CreatedResultsDir(b)
          /\ Returned(a) /\ ret[a] = Nil
          /\ \E i \in Deletions(a, checkmarxPath[b]) : calls[a][i].err = Nil

====
